---- MODULE Spec2Model ----
(***************************************************************************)
(* contrib/reuse/reuse-headers.py of dtn7-gold: the script lists the       *)
(* tracked files, reads every file's history with git log, groups the      *)
(* commits by (rewritten) author into sorted year lists, and then calls    *)
(* `reuse addheader` once per (file, author) record.                       *)
(*                                                                         *)
(* Strings of the program are TLA+ strings.  Where the program orders      *)
(* strings (list.sort on the year strings) the string is kept as its       *)
(* sequence of characters, here decimal digits, and rendered to a TLA+     *)
(* string where the program concatenates it.                               *)
(*                                                                         *)
(* Input domain: the paths printed by git ls-files hold no whitespace and  *)
(* are pairwise different (a clean index), so that str.split() of the      *)
(* output gives the tracked paths in order; author dates lie in the years  *)
(* 1970..9999, where strftime("%Y") gives four digits.                     *)
(***************************************************************************)
EXTENDS Integers, Sequences, FiniteSets, TLC

VARIABLES
    pc,       \* position of the script: "start", "collect" (top of the loop of
              \* line 78), "file_authors" (inside file_authors, at its return
              \* statement), "apply" (top of the loop of line 81), "done",
              \* "failed" (an exception left the script)
    tz,       \* offset of the local time zone from UTC, in seconds
    tracked,  \* the paths git ls-files printed, in order
    files,    \* the variable files of line 75
    i,        \* index into files of the file the loop of line 78 is at
    owners,   \* the variable owners of line 77
    j,        \* index into owners of the record the loop of line 81 is at
    fa,       \* the local variables of the running call of file_authors
    calls,    \* every external command run so far, in order, with its outcome
    error     \* the exception that ended the script, "" if none

vars == <<pc, tz, tracked, files, i, owners, j, fa, calls, error>>

-----------------------------------------------------------------------------
(* Bounds of the model. *)

MaxFiles == 2        \* tracked paths printed by git ls-files
MaxRunCommits == 2   \* commits of one file in a whole run (Spec)
MaxCommits == 3      \* commits of the file in a single call (SpecFA)

Paths == {"a.txt", "b.go", "go.mod"}

AuthorNames == {"Alvar", "Alvar Penning", "Zoe"}

\* 2019-12-31T23:59:59Z, 2020-01-01T00:00:00Z, 2021-01-01T00:00:00Z
Stamps == {1577836799, 1577836800, 1609459200}

RunStamps == {1577836799, 1609459200}

TzOffsets == {0, 3600}

-----------------------------------------------------------------------------
(* Static configuration. *)

DEFAULT_LICENSE == "GPL-3.0-or-later"

AUTHOR_REWRITE_chained == ("Alvar" :> "Alvar Penning") @@ ("Alvar Penning" :> "A. Penning")

AUTHOR_REWRITE == ("Alvar" :> "Alvar Penning")

FILE_IGNORE ==
    << "go.mod", "go.sum", ".reuse/dep5",
       "LICENSE", "LICENSES/CC0-1.0.txt", "LICENSES/GPL-3.0-or-later.txt" >>

-----------------------------------------------------------------------------
(* Helpers on sequences. *)

Range(s) == {s[k] : k \in 1..Len(s)}

Reverse(s) == [k \in 1..Len(s) |-> s[Len(s) + 1 - k]]

SeqsUpTo(S, n) == UNION {[1..m -> S] : m \in 0..n}

\* every order in which a set can be iterated
Orders(S) == {p \in [1..Cardinality(S) -> S] : \A a, b \in 1..Cardinality(S) : p[a] = p[b] => a = b}

-----------------------------------------------------------------------------
(* External commands. *)

\* an entry of the call log: the command, its arguments, whether it exited 0 and
\* whether the stdout the script captured from it was empty
Call(cmd, f, copyright, year, license, ok, empty) ==
    [cmd |-> cmd, f |-> f, copyright |-> copyright, year |-> year,
     license |-> license, ok |-> ok, empty |-> empty]

GitCall(cmd, f, ok, empty) == Call(cmd, f, "", "", "", ok, empty)

\* stdout of git log --pretty=format:%an%x00%at: one line per commit, newest
\* first, a line being its NUL-separated fields; h is the history, oldest first
GitLogStdout(h) == Reverse(h)

\* git(...).split("\n") and raw.split(chr(0)): the empty output splits into one
\* empty line, which splits into one empty field
OwnersRaw(stdout) == IF stdout = <<>> THEN << <<"">> >> ELSE stdout

-----------------------------------------------------------------------------
(* datetime.fromtimestamp(int(ts)).strftime("%Y") *)

\* the proleptic Gregorian year of the day that lies d days after 1970-01-01:
\* the days are counted from 0000-03-01 in eras of 400 years (146097 days)
YearFromDays(d) ==
    LET z == d + 719468
        era == z \div 146097
        doe == z - era * 146097
        yoe == (doe - doe \div 1460 + doe \div 36524 - doe \div 146096) \div 365
        doy == doe - (365 * yoe + yoe \div 4 - yoe \div 100)
        mp == (5 * doy + 2) \div 153
        month == IF mp < 10 THEN mp + 3 ELSE mp - 9
    IN  yoe + era * 400 + (IF month <= 2 THEN 1 ELSE 0)

\* the local calendar year of a timestamp
YearOf(ts, off) == YearFromDays((ts + off) \div 86400)

\* the characters of the four-digit year string
Strftime(y) == << y \div 1000, (y \div 100) % 10, (y \div 10) % 10, y % 10 >>

\* the order of str: character by character, a proper prefix first
RECURSIVE StrLess(_, _)
StrLess(a, b) ==
    IF b = <<>> THEN FALSE
    ELSE IF a = <<>> THEN TRUE
    ELSE IF Head(a) # Head(b) THEN Head(a) < Head(b)
    ELSE StrLess(Tail(a), Tail(b))

RECURSIVE Render(_)
Render(s) == IF s = <<>> THEN "" ELSE ToString(Head(s)) \o Render(Tail(s))

\* ", ".join(years)
RECURSIVE Join(_)
Join(years) ==
    IF years = <<>> THEN ""
    ELSE IF Len(years) = 1 THEN Render(years[1])
    ELSE Render(years[1]) \o ", " \o Join(Tail(years))

-----------------------------------------------------------------------------
(* file_authors *)

\* AUTHOR_REWRITE.get(author, author)
Normalize(author) ==
    IF author \in DOMAIN AUTHOR_REWRITE THEN AUTHOR_REWRITE[author] ELSE author

SortYearsOmitted(years) == years

\* owner_grp[author].sort()
SortYears(years) == SortSeq(years, StrLess)

\* the dict owner_grp is the sequence of its (key, value) pairs in insertion order
HasKey(grp, author) == \E k \in 1..Len(grp) : grp[k][1] = author

Get(grp, author) == grp[CHOOSE k \in 1..Len(grp) : grp[k][1] = author][2]

Keys(grp) == [k \in 1..Len(grp) |-> grp[k][1]]

InsertFirstYearOnly(grp, author, year) ==
    IF ~HasKey(grp, author) THEN Append(grp, <<author, <<year>>>>) ELSE grp

\* the body of the loop of line 50, after the rewrite of the author
Insert(grp, author, year) ==
    IF ~HasKey(grp, author)
    THEN Append(grp, <<author, <<year>>>>)
    ELSE IF year \notin Range(Get(grp, author))
    THEN [k \in 1..Len(grp) |->
            IF grp[k][1] = author
            THEN <<author, SortYears(Append(grp[k][2], year))>>
            ELSE grp[k]]
    ELSE grp

\* the loop of line 50 over the pairs in the order the set yields them
RECURSIVE Group(_, _)
Group(grp, order) ==
    IF order = <<>> THEN grp
    ELSE Group(Insert(grp, Normalize(Head(order)[1]), Head(order)[2]), Tail(order))

\* owners_year: (author, year string) of every commit
OwnersYear(tpl, off) ==
    [k \in 1..Len(tpl) |-> <<tpl[k][1], Strftime(YearOf(tpl[k][2], off))>>]

\* the list owners of line 59
OwnersOf(f, grp) == [k \in 1..Len(grp) |-> <<f, grp[k][1], Join(grp[k][2])>>]

\* the order of str on the author names of the model
AuthorRank == ("A. Penning" :> 0) @@ ("Alvar" :> 1) @@ ("Alvar Penning" :> 2) @@ ("Zoe" :> 3)

AuthorDescending(a, b) == AuthorRank[a[2]] > AuthorRank[b[2]]

ReturnedSorted(recs) == SortSeq(recs, AuthorDescending)

\* lines 61-63: the result of sorted() is dropped, owners is returned as it is
Returned(recs) == recs

NoCall == [f |-> "", owners_tpl |-> <<>>, order |-> <<>>, owner_grp |-> <<>>, owners |-> <<>>]

\* the local variables at line 63
Locals(f, tpl, order) ==
    [f |-> f, owners_tpl |-> tpl, order |-> order,
     owner_grp |-> Group(<<>>, order),
     owners |-> OwnersOf(f, Group(<<>>, order))]

-----------------------------------------------------------------------------
(* The script. *)

FilterNothing(list) == list

\* filter(lambda f: f not in FILE_IGNORE, ...)
FilterFiles(list) == SelectSeq(list, LAMBDA f : f \notin Range(FILE_IGNORE))

TrackedLists ==
    {l \in SeqsUpTo(Paths, MaxFiles) : \A a, b \in 1..Len(l) : l[a] = l[b] => a = b}

Histories(stamps, n) == SeqsUpTo(AuthorNames \X stamps, n)

Init ==
    /\ pc = "start"
    /\ tz \in TzOffsets
    /\ tracked = <<>>
    /\ files = <<>>
    /\ i = 1
    /\ owners = <<>>
    /\ j = 1
    /\ fa = NoCall
    /\ calls = <<>>
    /\ error = ""

\* line 75, git ls-files exits 0
LsFiles ==
    /\ pc = "start"
    /\ \E list \in TrackedLists :
        /\ tracked' = list
        /\ files' = FilterFiles(list)
        /\ calls' = Append(calls, GitCall("ls-files", "", TRUE, list = <<>>))
    /\ pc' = "collect"
    /\ UNCHANGED <<tz, i, owners, j, fa, error>>

\* line 75, git ls-files exits non-zero: check=True raises, nothing catches it
LsFilesFail ==
    /\ pc = "start"
    /\ calls' = Append(calls, GitCall("ls-files", "", FALSE, TRUE))
    /\ pc' = "failed"
    /\ error' = "CalledProcessError"
    /\ UNCHANGED <<tz, tracked, files, i, owners, j, fa>>

GitLogFailureRetried(idx) == [pc |-> "collect", i |-> idx, error |-> ""]

GitLogFailureSkipsFile(idx) == [pc |-> "collect", i |-> idx + 1, error |-> ""]

\* git log exits non-zero: check=True raises CalledProcessError in git(), which
\* file_authors and the loop of line 78 let through
GitLogFailure(idx) == [pc |-> "failed", i |-> idx, error |-> "CalledProcessError"]

\* line 79 -> line 42, git log exits non-zero
GitLogFail ==
    /\ pc = "collect"
    /\ i <= Len(files)
    /\ calls' = Append(calls, GitCall("log", files[i], FALSE, TRUE))
    /\ pc' = GitLogFailure(i).pc
    /\ i' = GitLogFailure(i).i
    /\ error' = GitLogFailure(i).error
    /\ UNCHANGED <<tz, tracked, files, owners, j, fa>>

\* line 79 -> lines 42-59: git log exits 0 and every line has its two fields
FileAuthorsCall(H) ==
    /\ pc = "collect"
    /\ i <= Len(files)
    /\ \E h \in H :
        LET tpl == Reverse(OwnersRaw(GitLogStdout(h)))
        IN  /\ \A k \in 1..Len(tpl) : Len(tpl[k]) >= 2
            /\ calls' = Append(calls, GitCall("log", files[i], TRUE, h = <<>>))
            /\ \E order \in Orders(Range(OwnersYear(tpl, tz))) :
                 fa' = Locals(files[i], tpl, order)
    /\ pc' = "file_authors"
    /\ UNCHANGED <<tz, tracked, files, i, owners, j, error>>

\* line 79 -> lines 42-46: git log exits 0 and tpl[1] of a line does not exist
FileAuthorsIndexError(H) ==
    /\ pc = "collect"
    /\ i <= Len(files)
    /\ \E h \in H :
        LET tpl == Reverse(OwnersRaw(GitLogStdout(h)))
        IN  /\ \E k \in 1..Len(tpl) : Len(tpl[k]) < 2
            /\ calls' = Append(calls, GitCall("log", files[i], TRUE, h = <<>>))
    /\ pc' = "failed"
    /\ error' = "IndexError"
    /\ UNCHANGED <<tz, tracked, files, i, owners, j, fa>>

\* lines 61-63 and line 79: owners = owners + file_authors(f)
FileAuthorsReturn ==
    /\ pc = "file_authors"
    /\ owners' = owners \o Returned(fa.owners)
    /\ fa' = NoCall
    /\ i' = i + 1
    /\ pc' = "collect"
    /\ UNCHANGED <<tz, tracked, files, j, calls, error>>

\* the loop of line 78 is over
EndCollect ==
    /\ pc = "collect"
    /\ i > Len(files)
    /\ pc' = "apply"
    /\ UNCHANGED <<tz, tracked, files, i, owners, j, fa, calls, error>>

AddheaderCall(rec, ok) == Call("addheader", rec[1], rec[2], rec[3], DEFAULT_LICENSE, ok, TRUE)

\* line 82, reuse addheader exits 0
ReuseAddheader ==
    /\ pc = "apply"
    /\ j <= Len(owners)
    /\ calls' = Append(calls, AddheaderCall(owners[j], TRUE))
    /\ j' = j + 1
    /\ UNCHANGED <<pc, tz, tracked, files, i, owners, fa, error>>

AddheaderFailureSkipsRecord(idx) == [pc |-> "apply", j |-> idx + 1, error |-> ""]

\* reuse addheader exits non-zero: check=True raises CalledProcessError, which
\* the loop of line 81 lets through
AddheaderFailure(idx) == [pc |-> "failed", j |-> idx, error |-> "CalledProcessError"]

\* line 82, reuse addheader exits non-zero
ReuseAddheaderFail ==
    /\ pc = "apply"
    /\ j <= Len(owners)
    /\ calls' = Append(calls, AddheaderCall(owners[j], FALSE))
    /\ pc' = AddheaderFailure(j).pc
    /\ j' = AddheaderFailure(j).j
    /\ error' = AddheaderFailure(j).error
    /\ UNCHANGED <<tz, tracked, files, i, owners, fa>>

\* the loop of line 81 is over, the script ends
Finish ==
    /\ pc = "apply"
    /\ j > Len(owners)
    /\ pc' = "done"
    /\ UNCHANGED <<tz, tracked, files, i, owners, j, fa, calls, error>>

RunHistories == Histories(RunStamps, MaxRunCommits)

Next ==
    \/ LsFiles
    \/ LsFilesFail
    \/ GitLogFail
    \/ FileAuthorsCall(RunHistories)
    \/ FileAuthorsIndexError(RunHistories)
    \/ FileAuthorsReturn
    \/ EndCollect
    \/ ReuseAddheader
    \/ ReuseAddheaderFail
    \/ Finish

Spec == Init /\ [][Next]_vars

-----------------------------------------------------------------------------
(* One call of file_authors, on a longer history: the script has listed one *)
(* file and is at the top of the loop of line 78.                           *)

InitFA ==
    /\ pc = "collect"
    /\ tz \in TzOffsets
    /\ \E f \in Paths \ Range(FILE_IGNORE) :
        /\ tracked = <<f>>
        /\ files = <<f>>
    /\ i = 1
    /\ owners = <<>>
    /\ j = 1
    /\ fa = NoCall
    /\ calls = << GitCall("ls-files", "", TRUE, FALSE) >>
    /\ error = ""

CallHistories == Histories(Stamps, MaxCommits)

NextFA ==
    \/ FileAuthorsCall(CallHistories)
    \/ FileAuthorsIndexError(CallHistories)
    \/ FileAuthorsReturn

SpecFA == InitFA /\ [][NextFA]_vars

-----------------------------------------------------------------------------
(* Vocabulary of the properties. *)

InFileAuthors == pc = "file_authors"

\* the canonical name of a raw author name, as the rewrite table gives it
Canonical(a) == IF a \in DOMAIN AUTHOR_REWRITE THEN AUTHOR_REWRITE[a] ELSE a

\* the commits the running call of file_authors read
Commits == Range(fa.owners_tpl)

CanonicalAuthors == {Canonical(c[1]) : c \in Commits}

\* the years in which a canonical author committed
YearsOf(author) == {YearOf(c[2], tz) : c \in {d \in Commits : Canonical(d[1]) = author}}

\* the number a year string denotes
YearNum(s) == 1000 * s[1] + 100 * s[2] + 10 * s[3] + s[4]

\* what the running call of file_authors is about to return
Result == Returned(fa.owners)

LogCalls == SelectSeq(calls, LAMBDA c : c.cmd = "log")

AddheaderCalls == SelectSeq(calls, LAMBDA c : c.cmd = "addheader")

Ignored == Range(FILE_IGNORE)

-----------------------------------------------------------------------------
\* C1: whatever the commits of a file and the order in which the set of
\* (author, year) pairs is iterated, file_authors returns exactly one record
\* per canonical author of the file, each record carries the file and the
\* comma-joined years of its author, and these years are strictly ascending
\* (so without a duplicate); a call that raises returns no record at all.
C1_OneRecordPerAuthorYearsAscending ==
    /\ InFileAuthors =>
        /\ Len(Result) = Cardinality(CanonicalAuthors)
        /\ {Result[k][2] : k \in 1..Len(Result)} = CanonicalAuthors
        /\ Len(fa.owner_grp) = Len(Result)
        /\ \A k \in 1..Len(Result) :
            /\ Result[k][1] = fa.f
            /\ Result[k][2] = fa.owner_grp[k][1]
            /\ Result[k][3] = Join(fa.owner_grp[k][2])
            /\ \A a, b \in 1..Len(fa.owner_grp[k][2]) :
                 a < b => YearNum(fa.owner_grp[k][2][a]) < YearNum(fa.owner_grp[k][2][b])
    /\ error = "IndexError" => owners = <<>> /\ fa = NoCall

\* C1 witness: three different (raw author, year) pairs of one canonical author,
\* two of them in the same year under different raw names, iterated with the
\* latest year first, give one record with two years.
C1_Witness ==
    /\ InFileAuthors
    /\ Len(fa.order) = 3
    /\ {c[1] : c \in Commits} = {"Alvar", "Alvar Penning"}
    /\ \A k \in 2..3 : YearNum(fa.order[1][2]) > YearNum(fa.order[k][2])
    /\ Len(Result) = 1
    /\ Len(fa.owner_grp[1][2]) = 2

\* C2: for a non-empty commit sequence the mapping file_authors builds has
\* exactly the canonical names of the raw authors as keys, and the years of a
\* key are exactly the years of the commits whose raw author rewrites to it,
\* whatever the order; "Alvar" in 2020 and "Alvar Penning" in 2021 on a.txt
\* give the single record (a.txt, "Alvar Penning", "2020, 2021").
C2_MappingEqualsReference ==
    (InFileAuthors /\ fa.owners_tpl # <<>>) =>
        /\ Range(Keys(fa.owner_grp)) = CanonicalAuthors
        /\ Len(fa.owner_grp) = Cardinality(CanonicalAuthors)
        /\ \A k \in 1..Len(fa.owner_grp) :
            /\ {YearNum(y) : y \in Range(fa.owner_grp[k][2])} = YearsOf(fa.owner_grp[k][1])
            /\ Len(fa.owner_grp[k][2]) = Cardinality(YearsOf(fa.owner_grp[k][1]))
        /\ ( /\ fa.f = "a.txt"
             /\ {<<c[1], YearOf(c[2], tz)>> : c \in Commits}
                   = {<<"Alvar", 2020>>, <<"Alvar Penning", 2021>>} )
           => Result = << <<"a.txt", "Alvar Penning", "2020, 2021">> >>

\* C2 witness: a.txt with a commit of "Alvar" in 2020 and, before it in the
\* log, a commit of "Alvar Penning" in 2021, the later year iterated first.
C2_Witness ==
    /\ InFileAuthors
    /\ fa.f = "a.txt"
    /\ Len(fa.owners_tpl) = 2
    /\ {<<c[1], YearOf(c[2], tz)>> : c \in Commits}
          = {<<"Alvar", 2020>>, <<"Alvar Penning", 2021>>}
    /\ fa.order[1][1] = "Alvar Penning"
    /\ Result = << <<"a.txt", "Alvar Penning", "2020, 2021">> >>

\* C7: the author normalization is defined for every name, returns a name that
\* is not a key of the rewrite table unchanged, and is idempotent: no value of
\* the table is a key of it, and every key of the mapping file_authors builds
\* is a fixed point of the normalization.
C7_NormalizeIdempotent ==
    /\ \A n \in AuthorNames \cup {AUTHOR_REWRITE[k] : k \in DOMAIN AUTHOR_REWRITE} :
        /\ n \notin DOMAIN AUTHOR_REWRITE => Normalize(n) = n
        /\ n \in DOMAIN AUTHOR_REWRITE => Normalize(n) = AUTHOR_REWRITE[n]
        /\ Normalize(Normalize(n)) = Normalize(n)
    /\ \A n \in DOMAIN AUTHOR_REWRITE : AUTHOR_REWRITE[n] \notin DOMAIN AUTHOR_REWRITE
    /\ InFileAuthors =>
        \A k \in 1..Len(fa.owner_grp) :
            /\ Normalize(fa.owner_grp[k][1]) = fa.owner_grp[k][1]
            /\ fa.owner_grp[k][1] \notin DOMAIN AUTHOR_REWRITE

\* C7 witness: a file whose commits are by "Alvar", "Alvar Penning" and a name
\* the table does not hold; the mapping has the two canonical names as keys.
C7_Witness ==
    /\ InFileAuthors
    /\ {c[1] : c \in Commits} = {"Alvar", "Alvar Penning", "Zoe"}
    /\ Range(Keys(fa.owner_grp)) = {"Alvar Penning", "Zoe"}

-----------------------------------------------------------------------------
(* Vocabulary of the properties of a whole run. *)

Ended == pc \in {"done", "failed"}

\* the tracked paths that are not in FILE_IGNORE, in the order of the list
NotIgnored == SelectSeq(tracked, LAMBDA f : f \notin Ignored)

\* place of a path in the tracked-file list
Place(f) == CHOOSE k \in 1..Len(tracked) : tracked[k] = f

IsPrefix(s, t) == Len(s) <= Len(t) /\ \A k \in 1..Len(s) : s[k] = t[k]

\* the arguments of a header applier invocation
Args(c) == <<c.f, c.copyright, c.year, c.license>>

\* the arguments the header applier is to get for a record
ArgsFor(rec) == <<rec[1], rec[2], rec[3], "GPL-3.0-or-later">>

RecordsOf(f) == SelectSeq(owners, LAMBDA rec : rec[1] = f)

IgnoredUntouched ==
    \A f \in Ignored :
        /\ \A k \in 1..Len(calls) : calls[k].cmd \in {"log", "addheader"} => calls[k].f # f
        /\ \A k \in 1..Len(owners) : owners[k][1] # f
        /\ fa.f # f

-----------------------------------------------------------------------------
\* C3 as stated: a tracked file in FILE_IGNORE never has its history read,
\* never gets a record and never reaches the header applier, and in every run
\* every tracked file that is not in FILE_IGNORE has its history read.
C3_Original ==
    /\ IgnoredUntouched
    /\ Ended => \A f \in Range(NotIgnored) :
                   \E k \in 1..Len(LogCalls) : LogCalls[k].f = f

\* C3 as amended: a tracked file in FILE_IGNORE never has its history read,
\* never gets a record and never reaches the header applier; the histories
\* read are those of the tracked files not in FILE_IGNORE, one query each in
\* the order of the list, up to the file at which the run stops, and all of
\* them once the run reaches the header applier.
C3_IgnoredNeverReadOthersInOrder ==
    /\ IgnoredUntouched
    /\ IsPrefix([k \in 1..Len(LogCalls) |-> LogCalls[k].f], NotIgnored)
    /\ IsPrefix(files, NotIgnored) /\ IsPrefix(NotIgnored, files)
    /\ pc \in {"apply", "done"} => Len(LogCalls) = Len(NotIgnored)
    /\ (Ended /\ Len(LogCalls) < Len(NotIgnored)) =>
          /\ pc = "failed"
          /\ calls[Len(calls)].cmd \in {"ls-files", "log"}

\* C3 witness: a finished run over go.mod and a file that is not ignored,
\* whose history was read and whose record reached the header applier.
C3_Witness ==
    /\ pc = "done"
    /\ Len(tracked) = 2
    /\ tracked[1] = "go.mod"
    /\ Len(LogCalls) = 1
    /\ Len(AddheaderCalls) >= 1

\* C4: a file whose history query succeeds with empty output gets no record,
\* and the run does not stop at it.
C4_EmptyHistoryNoCrash ==
    \A k \in 1..Len(calls) :
        (calls[k].cmd = "log" /\ calls[k].ok /\ calls[k].empty) =>
            /\ RecordsOf(calls[k].f) = <<>>
            /\ ~(pc = "failed" /\ k = Len(calls))

\* C5: a history query that exits non-zero is the last external command of the
\* run: the run is stopped by the error at that file, the query is not made
\* again, no later file is queried and no record is handed to the header
\* applier.
C5_GitLogFailureHalts ==
    \A k \in 1..Len(calls) :
        (calls[k].cmd = "log" /\ ~calls[k].ok) =>
            /\ k = Len(calls)
            /\ pc = "failed"
            /\ error = "CalledProcessError"
            /\ files[i] = calls[k].f
            /\ Len(LogCalls) = i
            /\ \A m \in 1..(Len(LogCalls) - 1) : LogCalls[m].f # calls[k].f
            /\ AddheaderCalls = <<>>

\* C5 witness: the query of the second file fails after the first file gave
\* records; they are never handed to the header applier.
C5_Witness ==
    /\ pc = "failed"
    /\ Len(files) = 2
    /\ i = 2
    /\ ~calls[Len(calls)].ok
    /\ calls[Len(calls)].cmd = "log"
    /\ Len(owners) >= 2

\* C6: at the end of a run in which no external command failed, the header
\* applier has been invoked exactly once per record and for nothing else, in
\* the order of the records, with the record's path, author and years and the
\* license GPL-3.0-or-later; so a file has as many invocations as it has
\* authors among the records.
C6_AppliedOncePerRecord ==
    (Ended /\ \A k \in 1..Len(calls) : calls[k].ok) =>
        /\ Len(AddheaderCalls) = Len(owners)
        /\ \A k \in 1..Len(owners) : Args(AddheaderCalls[k]) = ArgsFor(owners[k])
        /\ \A f \in Range(files) :
             Len(SelectSeq(AddheaderCalls, LAMBDA c : c.f = f))
               = Cardinality({rec[2] : rec \in Range(RecordsOf(f))})

\* phase of an external command: enumerate files, read history, apply headers
PhaseOf(cmd) == IF cmd = "ls-files" THEN 1 ELSE IF cmd = "log" THEN 2 ELSE 3

\* the canonical authors in the order in which they first occur in an iteration
RECURSIVE FirstSeen(_, _)
FirstSeen(seen, order) ==
    IF order = <<>> THEN seen
    ELSE IF Canonical(Head(order)[1]) \in Range(seen) THEN FirstSeen(seen, Tail(order))
    ELSE FirstSeen(Append(seen, Canonical(Head(order)[1])), Tail(order))

\* place of a position of the script in the order of the phases; a failed run
\* has left them
PhaseRank(p) ==
    IF p = "start" THEN 0
    ELSE IF p \in {"collect", "file_authors"} THEN 1
    ELSE IF p = "apply" THEN 2
    ELSE IF p = "done" THEN 3
    ELSE 4

CallsInPhaseOrder ==
    /\ \A k, m \in 1..Len(calls) : k < m => PhaseOf(calls[k].cmd) <= PhaseOf(calls[m].cmd)
    /\ \A k \in 1..Len(calls) : calls[k].cmd = "ls-files" => k = 1
    /\ pc = "start" <=> calls = <<>>
    /\ pc \in {"collect", "file_authors"} => AddheaderCalls = <<>> /\ calls[1].ok
    /\ pc \in {"apply", "done"} =>
          /\ Len(LogCalls) = Len(files)
          /\ \A k \in 1..Len(LogCalls) : LogCalls[k].ok
          /\ i = Len(files) + 1
    /\ pc = "done" => Len(AddheaderCalls) = Len(owners)
    /\ AddheaderCalls # <<>> =>
          /\ Len(LogCalls) = Len(files)
          /\ \A k \in 1..Len(LogCalls) : LogCalls[k].ok
    /\ (\E k \in 1..Len(calls) : calls[k].cmd \in {"ls-files", "log"} /\ ~calls[k].ok)
          => AddheaderCalls = <<>>

\* C8: a run never steps back to an earlier phase, and its external commands
\* come in the order of the phases, one listing of the files, then the history
\* queries, then the header applier invocations: every history query precedes
\* the first header applier invocation, the header applier runs only after
\* every file's history was read successfully, and in a run where a history
\* query failed the header applier has not run at all.
C8_PhasesInOrder ==
    /\ []CallsInPhaseOrder
    /\ [][ /\ PhaseRank(pc') >= PhaseRank(pc)
           /\ IsPrefix(calls, calls')
           /\ pc = "failed" => pc' = "failed" ]_vars

\* C8 witness: a finished run that read two histories and then invoked the
\* header applier at least twice.
C8_Witness ==
    /\ pc = "done"
    /\ Len(LogCalls) = 2
    /\ Len(AddheaderCalls) >= 2

\* C9: the records, and the header applier invocations, follow the order of
\* the tracked-file list with the records of one file next to each other, and
\* the records file_authors returns are in the order in which the authors were
\* first inserted into the mapping: the sort by author changes nothing.
C9_RecordsInInsertionOrder ==
    /\ InFileAuthors =>
          /\ Keys(fa.owner_grp) = FirstSeen(<<>>, fa.order)
          /\ Len(Result) = Len(fa.owner_grp)
          /\ \A k \in 1..Len(Result) : Result[k][2] = fa.owner_grp[k][1]
    /\ \A k, m \in 1..Len(owners) : k < m => Place(owners[k][1]) <= Place(owners[m][1])
    /\ Len(AddheaderCalls) <= Len(owners)
    /\ \A k \in 1..Len(AddheaderCalls) : Args(AddheaderCalls[k]) = ArgsFor(owners[k])

\* C9 witness: a finished run over b.go and a.txt, in this order, in which the
\* two records of b.go are in ascending order of the author.
C9_Witness ==
    /\ pc = "done"
    /\ tracked = <<"b.go", "a.txt">>
    /\ Len(owners) = 3
    /\ owners[1][1] = "b.go" /\ owners[2][1] = "b.go" /\ owners[3][1] = "a.txt"
    /\ owners[1][2] = "Alvar Penning" /\ owners[2][2] = "Zoe"
    /\ Len(AddheaderCalls) = 3

\* C10: a header applier invocation that exits non-zero is the last external
\* command of the run: the run is stopped by the error at that record, the
\* invocation is not made again, no later record is handed over, and the
\* invocations made for the earlier records stay as they were.
C10_AddheaderFailureHalts ==
    \A k \in 1..Len(calls) :
        (calls[k].cmd = "addheader" /\ ~calls[k].ok) =>
            /\ k = Len(calls)
            /\ pc = "failed"
            /\ error = "CalledProcessError"
            /\ Len(AddheaderCalls) = j
            /\ \A m \in 1..j : Args(AddheaderCalls[m]) = ArgsFor(owners[m])
            /\ \A m \in 1..(j - 1) : AddheaderCalls[m].ok

\* C10 witness: the second of three records fails; the first was applied, the
\* third is never handed over.
C10_Witness ==
    /\ pc = "failed"
    /\ Len(owners) = 3
    /\ j = 2
    /\ Len(AddheaderCalls) = 2
    /\ AddheaderCalls[1].ok
    /\ ~AddheaderCalls[2].ok

====
